---------------------------- MODULE Spec2Model ----------------------------
(***************************************************************************)
(* Gradebook utility (Lab11.py): the three loaders, the main gate and the  *)
(* three menu queries, as one sequential state machine.                    *)
(*                                                                         *)
(* Text is modelled as sequences of one-character strings, so that         *)
(* str.strip, str.split(','), str.split(), str.endswith, int() and float() *)
(* are computed character by character as Python computes them.            *)
(*                                                                         *)
(* Percent values are fixed-point numbers in units of 1/Scale.  Every      *)
(* percent token of the model is a finite decimal with at most one         *)
(* fractional digit, and the fractional ones are dyadic (x.5), so the      *)
(* double that float() yields is exactly the decimal and sums of scores    *)
(* are exact.  float() tokens such as "nan", "inf" or "1e2" are outside    *)
(* the input sets of the model.                                            *)
(***************************************************************************)
EXTENDS Integers, Sequences, FiniteSets, TLC

VARIABLES
    pc,          \* control point of main()
    exists,      \* file system: which top-level sources are present
    file,        \* lines consumed so far from the text file now open
    dir,         \* directory entries os.listdir has yielded so far
    students,    \* dict name -> sid
    assignments, \* dict name -> {points, id}, in insertion order
    submissions, \* list of {student_id, assignment_id, percent}
    stdin,       \* answers input() has returned so far
    printed      \* lines the last step wrote to standard output

vars == <<pc, exists, file, dir, students, assignments, submissions, stdin, printed>>

\* ------------------------------------------------------------------ bounds

\* Longest students.txt / assignments.txt, in lines.
MaxLines == 3

\* Most entries in data/submissions.
MaxFiles == 2

\* ------------------------------------------------------------ Python text

Whitespace == {" ", "\t", "\n"}

Digits == {"0", "1", "2", "3", "4", "5", "6", "7", "8", "9"}

DigitVal(c) ==
    CASE c = "0" -> 0 [] c = "1" -> 1 [] c = "2" -> 2 [] c = "3" -> 3
      [] c = "4" -> 4 [] c = "5" -> 5 [] c = "6" -> 6 [] c = "7" -> 7
      [] c = "8" -> 8 [] c = "9" -> 9

RECURSIVE LStrip(_)
LStrip(s) ==
    IF s = <<>> \/ Head(s) \notin Whitespace THEN s ELSE LStrip(Tail(s))

RECURSIVE RStrip(_)
RStrip(s) ==
    IF s = <<>> \/ s[Len(s)] \notin Whitespace THEN s
    ELSE RStrip(SubSeq(s, 1, Len(s) - 1))

\* str.strip()
Strip(s) == RStrip(LStrip(s))

\* Least index of s holding a character of set cs, or Len(s) + 1.
RECURSIVE FirstIn(_, _, _)
FirstIn(s, cs, i) ==
    IF i > Len(s) \/ s[i] \in cs THEN i ELSE FirstIn(s, cs, i + 1)

\* str.split(','): every comma separates, empty fields are kept.
RECURSIVE SplitComma(_)
SplitComma(s) ==
    LET i == FirstIn(s, {","}, 1)
    IN  IF i > Len(s) THEN <<s>>
        ELSE <<SubSeq(s, 1, i - 1)>> \o SplitComma(SubSeq(s, i + 1, Len(s)))

\* str.split(): runs of whitespace separate, no empty token.
RECURSIVE SplitWhitespace(_)
SplitWhitespace(s) ==
    LET t == LStrip(s)
        j == FirstIn(t, Whitespace, 1)
    IN  IF t = <<>> THEN <<>>
        ELSE <<SubSeq(t, 1, j - 1)>> \o SplitWhitespace(SubSeq(t, j, Len(t)))

\* str.endswith(suffix)
EndsWith(s, suffix) ==
    /\ Len(s) >= Len(suffix)
    /\ SubSeq(s, Len(s) - Len(suffix) + 1, Len(s)) = suffix

Unsigned(s) == IF s # <<>> /\ Head(s) \in {"+", "-"} THEN Tail(s) ELSE s

Sign(s) == IF s # <<>> /\ Head(s) = "-" THEN -1 ELSE 1

AllDigits(s) == s # <<>> /\ \A i \in 1..Len(s) : s[i] \in Digits

RECURSIVE DigitsVal(_)
DigitsVal(s) ==
    IF s = <<>> THEN 0
    ELSE 10 * DigitsVal(SubSeq(s, 1, Len(s) - 1)) + DigitVal(s[Len(s)])

\* int(s) succeeds: an optional sign and decimal digits.
IsInt(s) == AllDigits(Unsigned(s))

IntVal(s) == Sign(s) * DigitsVal(Unsigned(s))

\* Fixed-point unit of a percent: one unit is 1/Scale.
Scale == 10

\* float(s) succeeds: an optional sign, then digits with an optional
\* fraction ("81", "0.5", "5.", ".5").
IsFloat(s) ==
    LET u == Unsigned(s)
        d == FirstIn(u, {"."}, 1)
        ip == SubSeq(u, 1, d - 1)
        fp == SubSeq(u, d + 1, Len(u))
    IN  /\ \A i \in 1..Len(u) : u[i] \in Digits \cup {"."}
        /\ Len(ip) + Len(fp) > 0
        /\ \A i \in 1..Len(fp) : fp[i] \in Digits

\* float(s) in units of 1/Scale (tokens carry at most one fractional digit).
FloatVal(s) ==
    LET u == Unsigned(s)
        d == FirstIn(u, {"."}, 1)
        ip == SubSeq(u, 1, d - 1)
        fp == SubSeq(u, d + 1, Len(u))
    IN  Sign(s) * (Scale * DigitsVal(ip) + (IF fp = <<>> THEN 0 ELSE DigitVal(fp[1])))


\* ----------------------------------------------------------------- inputs

\* Lines students.txt may hold: "a,1\n", "a,2", " b , 2 ", "b,1",
\* "a" (one field), "a,1,2" (three fields), "" and a whitespace-only line.
StudentLines ==
    { <<"a", ",", "1", "\n">>,
      <<"a", ",", "2">>,
      <<" ", "b", " ", ",", " ", "2", " ">>,
      <<"b", ",", "1">>,
      <<"a">>,
      <<"a", ",", "1", ",", "2">>,
      <<>>,
      <<" ", "\n">> }

\* Lines assignments.txt may hold: "h,500,1\n", "q,250,1", " q , 500 , 2 ",
\* "h,1000,2", "h,x,1" (points not an integer), "h,500" (two fields),
\* "q,250,1,9" (four fields) and "".
AssignmentLines ==
    { <<"h", ",", "5", "0", "0", ",", "1", "\n">>,
      <<"q", ",", "2", "5", "0", ",", "1">>,
      <<" ", "q", " ", ",", " ", "5", "0", "0", " ", ",", " ", "2", " ">>,
      <<"h", ",", "1", "0", "0", "0", ",", "2">>,
      <<"h", ",", "x", ",", "1">>,
      <<"h", ",", "5", "0", "0">>,
      <<"q", ",", "2", "5", "0", ",", "1", ",", "9">>,
      <<>> }

TxtName == <<"s", ".", "t", "x", "t">>

OtherName == <<"s", ".", "d">>

Source(n, r, t) == [name |-> n, readable |-> r, text |-> t]

\* Entries data/submissions may hold: four well-formed .txt files
\* ("1 1 81\n", "1 2 150", " 2  1\t0.5 ", "2 1 150"), a blank one, one with
\* two tokens, one with four, one with a non-numeric percent, one that
\* cannot be read, and a well-formed file whose name does not end in .txt.
Sources ==
    { Source(TxtName, TRUE, <<"1", " ", "1", " ", "8", "1", "\n">>),
      Source(TxtName, TRUE, <<"1", " ", "2", " ", "1", "5", "0">>),
      Source(TxtName, TRUE, <<" ", "2", " ", " ", "1", "\t", "0", ".", "5", " ">>),
      Source(TxtName, TRUE, <<"2", " ", "1", " ", "1", "5", "0">>),
      Source(TxtName, TRUE, <<"\n">>),
      Source(TxtName, TRUE, <<"1", " ", "1">>),
      Source(TxtName, TRUE, <<"1", " ", "1", " ", "8", "1", " ", "9">>),
      Source(TxtName, TRUE, <<"1", " ", "1", " ", "x">>),
      Source(TxtName, FALSE, <<"1", " ", "1", " ", "8", "1">>),
      Source(OtherName, TRUE, <<"1", " ", "1", " ", "8", "1">>) }

\* Answers to "Enter your selection: ".
Choices == { <<"1">>, <<"2">>, <<"3">>, <<"4">> }

\* Answers to "What is the student's name: ".
StudentNameInputs == { <<"a">>, <<"b">>, <<"z">> }

\* Answers to "What is the assignment name: ".
AssignmentNameInputs == { <<"h">>, <<"q">>, <<"z">> }

\* ----------------------------------------------------------------- output

Line(k, v) == [kind |-> k, n |-> v]

Text(k) == Line(k, 0)

\* ---------------------------------------------------------------- loaders

EmptyDict == <<>>

\* Mutant of DictPut: a key already present keeps its value (setdefault).
DictPutKeepFirst(d, k, v) ==
    [x \in DOMAIN d \cup {k} |-> IF x \in DOMAIN d THEN d[x] ELSE v]

\* d[k] = v on a dict whose order is never observed.
DictPut(d, k, v) ==
    [x \in DOMAIN d \cup {k} |-> IF x = k THEN v ELSE d[x]]

\* Mutant of StudentLine: the fields are unpacked as sid, name.
StudentLineSwapped(d, raw) ==
    LET line == Strip(raw)
        parts == SplitComma(line)
    IN  IF line = <<>> THEN [students |-> d, printed |-> <<>>]
        ELSE IF Len(parts) # 2
        THEN [students |-> d,
              printed |-> <<Text("Warning: Malformed line in students.txt")>>]
        ELSE [students |-> [x \in DOMAIN d \cup {Strip(parts[2])} |->
                               IF x = Strip(parts[2]) THEN Strip(parts[1]) ELSE d[x]],
              printed |-> <<>>]

\* Mutant of StudentLine: the field count is tested with < 2, so that a line
\* of three fields loads its first two.
StudentLineAtLeastTwo(d, raw) ==
    LET line == Strip(raw)
        parts == SplitComma(line)
    IN  IF line = <<>> THEN [students |-> d, printed |-> <<>>]
        ELSE IF Len(parts) < 2
        THEN [students |-> d,
              printed |-> <<Text("Warning: Malformed line in students.txt")>>]
        ELSE [students |-> [x \in DOMAIN d \cup {Strip(parts[1])} |->
                               IF x = Strip(parts[1]) THEN Strip(parts[2]) ELSE d[x]],
              printed |-> <<>>]

\* One iteration of the loop of load_students over a line of the file.
StudentLine(d, raw) ==
    LET line == Strip(raw)
        parts == SplitComma(line)
    IN  IF line = <<>> THEN [students |-> d, printed |-> <<>>]
        ELSE IF Len(parts) # 2
        THEN [students |-> d,
              printed |-> <<Text("Warning: Malformed line in students.txt")>>]
        ELSE [students |-> DictPut(d, Strip(parts[1]), Strip(parts[2])),
              printed |-> <<>>]

AssignmentNames(a) == { a[i].name : i \in 1..Len(a) }

AssignmentIndex(a, k) == CHOOSE i \in 1..Len(a) : a[i].name = k

\* a[k] = {points, id} on an insertion-ordered dict: a known key keeps its
\* place, a new key goes last.
OrderedPut(a, k, pts, aid) ==
    LET e == [name |-> k, points |-> pts, id |-> aid]
    IN  IF k \in AssignmentNames(a)
        THEN [a EXCEPT ![AssignmentIndex(a, k)] = e]
        ELSE Append(a, e)

\* One iteration of the loop of load_assignments over a line of the file.
AssignmentLine(a, raw) ==
    LET line == Strip(raw)
        parts == SplitComma(line)
    IN  IF line = <<>> THEN [assignments |-> a, printed |-> <<>>]
        ELSE IF Len(parts) # 3
        THEN [assignments |-> a,
              printed |-> <<Text("Warning: Malformed line in assignments.txt")>>]
        ELSE IF ~IsInt(Strip(parts[2]))
        THEN [assignments |-> a,
              printed |-> <<Text("Warning: Non-integer points value for assignment")>>]
        ELSE [assignments |->
                  OrderedPut(a, Strip(parts[1]), IntVal(Strip(parts[2])), Strip(parts[3])),
              printed |-> <<>>]

\* The filter on directory entries.
IsSubmissionName(n) == EndsWith(n, <<".", "t", "x", "t">>)

\* Mutant of SubmissionFile: the token count is tested with < 3, so that a
\* file of four tokens loads its first three.
SubmissionFileAtLeastThree(subs, src) ==
    LET text == Strip(src.text)
        parts == SplitWhitespace(text)
    IN  IF ~EndsWith(src.name, <<".", "t", "x", "t">>)
        THEN [submissions |-> subs, printed |-> <<>>]
        ELSE IF ~src.readable
        THEN [submissions |-> subs, printed |-> <<Text("Error reading file")>>]
        ELSE IF text = <<>> THEN [submissions |-> subs, printed |-> <<>>]
        ELSE IF Len(parts) < 3 THEN [submissions |-> subs, printed |-> <<>>]
        ELSE IF ~IsFloat(Strip(parts[3]))
        THEN [submissions |-> subs,
              printed |-> <<Text("Warning: Non-float percentage in submission file")>>]
        ELSE [submissions |->
                  Append(subs, [student_id |-> Strip(parts[1]),
                                assignment_id |-> Strip(parts[2]),
                                percent |-> FloatVal(Strip(parts[3]))]),
              printed |-> <<>>]

\* One iteration of the loop of load_submissions over a directory entry.
SubmissionFile(subs, src) ==
    LET text == Strip(src.text)
        parts == SplitWhitespace(text)
    IN  IF ~IsSubmissionName(src.name) THEN [submissions |-> subs, printed |-> <<>>]
        ELSE IF ~src.readable
        THEN [submissions |-> subs, printed |-> <<Text("Error reading file")>>]
        ELSE IF text = <<>> THEN [submissions |-> subs, printed |-> <<>>]
        ELSE IF Len(parts) # 3 THEN [submissions |-> subs, printed |-> <<>>]
        ELSE IF ~IsFloat(Strip(parts[3]))
        THEN [submissions |-> subs,
              printed |-> <<Text("Warning: Non-float percentage in submission file")>>]
        ELSE [submissions |->
                  Append(subs, [student_id |-> Strip(parts[1]),
                                assignment_id |-> Strip(parts[2]),
                                percent |-> FloatVal(Strip(parts[3]))]),
              printed |-> <<>>]

\* ---------------------------------------------------------------- queries

TOTAL_POSSIBLE_POINTS == 1000

\* round() of the exact value num/den (den > 0) of a double: to the nearest
\* integer, a tie to the even one.
RoundHalfEven(num, den) ==
    LET q == num \div den
        r == num % den
    IN  IF 2 * r < den THEN q
        ELSE IF 2 * r > den THEN q + 1
        ELSE IF q % 2 = 0 THEN q ELSE q + 1

\* round() of a double computed with rounding error from operands whose
\* exact result is num/den: off a tie the error cannot change the nearest
\* integer; on a tie the double lies on either side of it.
RoundInexact(num, den) ==
    LET q == num \div den
        r == num % den
    IN  IF 2 * r < den THEN {q}
        ELSE IF 2 * r > den THEN {q + 1}
        ELSE {q, q + 1}

\* Mutant of PointsLookup: the first assignment carrying an identifier wins.
RECURSIVE PointsLookupFirstWins(_)
PointsLookupFirstWins(a) ==
    IF a = <<>> THEN <<>>
    ELSE LET rest == PointsLookupFirstWins(Tail(a))
         IN  [x \in DOMAIN rest \cup {a[1].id} |->
                 IF x = a[1].id THEN a[1].points ELSE rest[x]]

\* {adata["id"]: adata["points"] for adata in assignments.values()}
RECURSIVE PointsLookup(_)
PointsLookup(a) ==
    IF a = <<>> THEN EmptyDict
    ELSE DictPut(PointsLookup(SubSeq(a, 1, Len(a) - 1)), a[Len(a)].id, a[Len(a)].points)

\* total_points_earned after the loop over submissions, in units of
\* 1/(100 * Scale) of a point.
RECURSIVE PointsEarned(_, _, _)
PointsEarned(subs, sid, lookup) ==
    IF subs = <<>> THEN 0
    ELSE LET sub == subs[Len(subs)]
             rest == PointsEarned(SubSeq(subs, 1, Len(subs) - 1), sid, lookup)
         IN  IF sub.student_id = sid /\ sub.assignment_id \in DOMAIN lookup
             THEN rest + lookup[sub.assignment_id] * sub.percent
             ELSE rest

\* Mutant of StudentGrade: a name that is no student is graded as a student
\* without submissions.
StudentGradeNoCheck(st, a, subs, name) ==
    IF name \notin DOMAIN st THEN { <<Line("percent", 0)>> }
    ELSE { <<Line("percent", g)>> :
             g \in RoundInexact(PointsEarned(subs, st[name], PointsLookup(a)),
                                Scale * TOTAL_POSSIBLE_POINTS) }

\* What option_student_grade may print for an answer `name`.
StudentGrade(st, a, subs, name) ==
    IF name \notin DOMAIN st THEN { <<Text("Student not found")>> }
    ELSE IF TOTAL_POSSIBLE_POINTS > 0
    THEN { <<Line("percent", g)>> :
             g \in RoundInexact(PointsEarned(subs, st[name], PointsLookup(a)),
                                Scale * TOTAL_POSSIBLE_POINTS) }
    ELSE { <<Text("Error: Total possible points is zero.")>> }

\* [sub["percent"] for sub in submissions if sub["assignment_id"] == aid]
RECURSIVE Scores(_, _)
Scores(subs, aid) ==
    IF subs = <<>> THEN <<>>
    ELSE IF Head(subs).assignment_id = aid
    THEN <<Head(subs).percent>> \o Scores(Tail(subs), aid)
    ELSE Scores(Tail(subs), aid)

RECURSIVE SeqMin(_)
SeqMin(s) ==
    IF Len(s) = 1 THEN s[1]
    ELSE LET m == SeqMin(Tail(s)) IN IF s[1] <= m THEN s[1] ELSE m

RECURSIVE SeqMax(_)
SeqMax(s) ==
    IF Len(s) = 1 THEN s[1]
    ELSE LET m == SeqMax(Tail(s)) IN IF s[1] >= m THEN s[1] ELSE m

RECURSIVE SeqSum(_)
SeqSum(s) == IF s = <<>> THEN 0 ELSE s[1] + SeqSum(Tail(s))

\* Mutant of AverageLine: the average is floored (sum // len).
AverageFloor(scores) == SeqSum(scores) \div (Scale * Len(scores))

\* round(sum(scores) / len(scores))
AverageLine(scores) == RoundHalfEven(SeqSum(scores), Scale * Len(scores))

\* Mutant of AssignmentStats: no check for an empty score list, zeros are
\* printed for it.
AssignmentStatsNoEmptyCheck(a, subs, name) ==
    IF name \notin AssignmentNames(a) THEN <<Text("Assignment not found")>>
    ELSE LET scores == Scores(subs, a[AssignmentIndex(a, name)].id)
         IN  IF scores = <<>>
             THEN <<Line("Min", 0), Line("Avg", 0), Line("Max", 0)>>
             ELSE << Line("Min", RoundHalfEven(SeqMin(scores), Scale)),
                     Line("Avg", AverageLine(scores)),
                     Line("Max", RoundHalfEven(SeqMax(scores), Scale)) >>

\* What option_assignment_stats prints for an answer `name`.
AssignmentStats(a, subs, name) ==
    IF name \notin AssignmentNames(a) THEN <<Text("Assignment not found")>>
    ELSE LET scores == Scores(subs, a[AssignmentIndex(a, name)].id)
         IN  IF scores = <<>> THEN <<Text("Assignment not found")>>
             ELSE << Line("Min", RoundHalfEven(SeqMin(scores), Scale)),
                     Line("Avg", AverageLine(scores)),
                     Line("Max", RoundHalfEven(SeqMax(scores), Scale)) >>

\* What option_assignment_graph shows for an answer `name`: the message, or
\* a histogram of the scores (here: of how many).
AssignmentGraph(a, subs, name) ==
    IF name \notin AssignmentNames(a) THEN <<Text("Assignment not found")>>
    ELSE LET scores == Scores(subs, a[AssignmentIndex(a, name)].id)
         IN  IF scores = <<>> THEN <<Text("Assignment not found")>>
             ELSE <<Line("histogram", Len(scores))>>

\* ------------------------------------------------------------------- main

Init ==
    /\ pc = "load_students"
    /\ exists \in [{"students", "assignments", "submissions"} -> BOOLEAN]
    /\ file = <<>>
    /\ dir = <<>>
    /\ students = EmptyDict
    /\ assignments = <<>>
    /\ submissions = <<>>
    /\ stdin = <<>>
    /\ printed = <<>>

\* Mutant of AfterFileNotFound: no except clause, the exception leaves main.
AfterFileNotFoundUncaught(next) == "crashed"

\* Where main goes on after open() raised FileNotFoundError in a loader: the
\* except clause prints and the loader returns its empty dataset.
AfterFileNotFound(next) == next

\* load_students: open(path), or the except clause.
OpenStudents ==
    /\ pc = "load_students"
    /\ \/ /\ exists["students"]
          /\ pc' = "students_loop"
          /\ printed' = <<>>
       \/ /\ ~exists["students"]
          /\ pc' = AfterFileNotFound("load_assignments")
          /\ printed' = <<Text("Error: students.txt not found")>>
    /\ UNCHANGED <<exists, file, dir, students, assignments, submissions, stdin>>

\* load_students: one line of the file.
ReadStudentLine ==
    /\ pc = "students_loop"
    /\ Len(file) < MaxLines
    /\ \E raw \in StudentLines :
         LET r == StudentLine(students, raw)
         IN  /\ students' = r.students
             /\ printed' = r.printed
             /\ file' = Append(file, raw)
    /\ UNCHANGED <<pc, exists, dir, assignments, submissions, stdin>>

\* load_students: end of file, the file is closed and students returned.
ReturnStudents ==
    /\ pc = "students_loop"
    /\ pc' = "load_assignments"
    /\ file' = <<>>
    /\ printed' = <<>>
    /\ UNCHANGED <<exists, dir, students, assignments, submissions, stdin>>

\* load_assignments: open(path), or the except clause.
OpenAssignments ==
    /\ pc = "load_assignments"
    /\ \/ /\ exists["assignments"]
          /\ pc' = "assignments_loop"
          /\ printed' = <<>>
       \/ /\ ~exists["assignments"]
          /\ pc' = AfterFileNotFound("load_submissions")
          /\ printed' = <<Text("Error: assignments.txt not found")>>
    /\ UNCHANGED <<exists, file, dir, students, assignments, submissions, stdin>>

\* load_assignments: one line of the file.
ReadAssignmentLine ==
    /\ pc = "assignments_loop"
    /\ Len(file) < MaxLines
    /\ \E raw \in AssignmentLines :
         LET r == AssignmentLine(assignments, raw)
         IN  /\ assignments' = r.assignments
             /\ printed' = r.printed
             /\ file' = Append(file, raw)
    /\ UNCHANGED <<pc, exists, dir, students, submissions, stdin>>

\* load_assignments: end of file.
ReturnAssignments ==
    /\ pc = "assignments_loop"
    /\ pc' = "load_submissions"
    /\ file' = <<>>
    /\ printed' = <<>>
    /\ UNCHANGED <<exists, dir, students, assignments, submissions, stdin>>

\* load_submissions: os.path.exists(sub_dir), the early return when not.
OpenSubmissions ==
    /\ pc = "load_submissions"
    /\ \/ /\ exists["submissions"]
          /\ pc' = "submissions_loop"
          /\ printed' = <<>>
       \/ /\ ~exists["submissions"]
          /\ pc' = "check"
          /\ printed' = <<Text("Error: data/submissions not found")>>
    /\ UNCHANGED <<exists, file, dir, students, assignments, submissions, stdin>>

\* load_submissions: one entry of os.listdir(sub_dir).
ReadSubmissionFile ==
    /\ pc = "submissions_loop"
    /\ Len(dir) < MaxFiles
    /\ \E src \in Sources :
         LET r == SubmissionFile(submissions, src)
         IN  /\ submissions' = r.submissions
             /\ printed' = r.printed
             /\ dir' = Append(dir, src)
    /\ UNCHANGED <<pc, exists, file, students, assignments, stdin>>

\* load_submissions: the listing is exhausted.
ReturnSubmissions ==
    /\ pc = "submissions_loop"
    /\ pc' = "check"
    /\ dir' = <<>>
    /\ printed' = <<>>
    /\ UNCHANGED <<exists, file, students, assignments, submissions, stdin>>

\* Mutant of AllLoaded: the submissions are not tested.
AllLoadedIgnoresSubmissions(st, a, subs) == DOMAIN st # {} /\ a # <<>>

\* students and assignments and submissions
AllLoaded(st, a, subs) == DOMAIN st # {} /\ a # <<>> /\ subs # <<>>

Menu == << Text("1. Student grade"), Text("2. Assignment statistics"),
           Text("3. Assignment graph") >>

\* main: the exit when a dataset is empty, else the menu.
CheckLoaded ==
    /\ pc = "check"
    /\ \/ /\ ~AllLoaded(students, assignments, submissions)
          /\ printed' = <<Text("Could not load necessary course data. Exiting.")>>
          /\ pc' = "done"
       \/ /\ AllLoaded(students, assignments, submissions)
          /\ printed' = Menu
          /\ pc' = "menu"
    /\ UNCHANGED <<exists, file, dir, students, assignments, submissions, stdin>>

\* main: input("Enter your selection: ") and the dispatch on it.
ReadChoice ==
    /\ pc = "menu"
    /\ \E choice \in Choices :
         /\ stdin' = Append(stdin, choice)
         /\ IF choice = <<"1">> THEN pc' = "grade" /\ printed' = <<>>
            ELSE IF choice = <<"2">> THEN pc' = "stats" /\ printed' = <<>>
            ELSE IF choice = <<"3">> THEN pc' = "graph" /\ printed' = <<>>
            ELSE pc' = "done" /\ printed' = <<Text("Invalid option")>>
    /\ UNCHANGED <<exists, file, dir, students, assignments, submissions>>

OptionStudentGrade ==
    /\ pc = "grade"
    /\ \E name \in StudentNameInputs :
         /\ stdin' = Append(stdin, name)
         /\ printed' \in StudentGrade(students, assignments, submissions, name)
    /\ pc' = "done"
    /\ UNCHANGED <<exists, file, dir, students, assignments, submissions>>

OptionAssignmentStats ==
    /\ pc = "stats"
    /\ \E name \in AssignmentNameInputs :
         /\ stdin' = Append(stdin, name)
         /\ printed' = AssignmentStats(assignments, submissions, name)
    /\ pc' = "done"
    /\ UNCHANGED <<exists, file, dir, students, assignments, submissions>>

OptionAssignmentGraph ==
    /\ pc = "graph"
    /\ \E name \in AssignmentNameInputs :
         /\ stdin' = Append(stdin, name)
         /\ printed' = AssignmentGraph(assignments, submissions, name)
    /\ pc' = "done"
    /\ UNCHANGED <<exists, file, dir, students, assignments, submissions>>

Next ==
    \/ OpenStudents
    \/ ReadStudentLine
    \/ ReturnStudents
    \/ OpenAssignments
    \/ ReadAssignmentLine
    \/ ReturnAssignments
    \/ OpenSubmissions
    \/ ReadSubmissionFile
    \/ ReturnSubmissions
    \/ CheckLoaded
    \/ ReadChoice
    \/ OptionStudentGrade
    \/ OptionAssignmentStats
    \/ OptionAssignmentGraph

Spec == Init /\ [][Next]_vars

\* ------------------------------------------------- whole-file loader folds

\* The dataset load_students has built after reading `lines`.
RECURSIVE LoadStudents(_)
LoadStudents(lines) ==
    IF lines = <<>> THEN EmptyDict
    ELSE StudentLine(LoadStudents(SubSeq(lines, 1, Len(lines) - 1)),
                     lines[Len(lines)]).students

\* The dataset load_assignments has built after reading `lines`.
RECURSIVE LoadAssignments(_)
LoadAssignments(lines) ==
    IF lines = <<>> THEN <<>>
    ELSE AssignmentLine(LoadAssignments(SubSeq(lines, 1, Len(lines) - 1)),
                        lines[Len(lines)]).assignments

\* The list load_submissions has built after the entries `srcs`.
RECURSIVE LoadSubmissions(_)
LoadSubmissions(srcs) ==
    IF srcs = <<>> THEN <<>>
    ELSE SubmissionFile(LoadSubmissions(SubSeq(srcs, 1, Len(srcs) - 1)),
                        srcs[Len(srcs)]).submissions

\* ================================================================= claims

\* Number of commas of a line: its field count is one more.
CommaCount(l) == Cardinality({ i \in 1..Len(l) : l[i] = "," })

\* The k-th comma-separated field of a line, trimmed.
Field(l, k) == Strip(SplitComma(l)[k])

\* Sum of f[i] over the finite set S of indices.
RECURSIVE SumOver(_, _)
SumOver(S, f) ==
    IF S = {} THEN 0
    ELSE LET i == CHOOSE x \in S : TRUE IN f[i] + SumOver(S \ {i}, f)

\* g is an integer nearest to num/den (den > 0).
IsNearest(g, num, den) ==
    LET diff == g * den - num
    IN  2 * (IF diff < 0 THEN -diff ELSE diff) <= den

AllNonEmpty ==
    /\ Cardinality(DOMAIN students) > 0
    /\ Len(assignments) > 0
    /\ Len(submissions) > 0

GradeAsked == pc = "done" /\ Len(stdin) = 2 /\ stdin[1] = <<"1">>

StatsAsked == pc = "done" /\ Len(stdin) = 2 /\ stdin[1] = <<"2">>

\* Identifiers carried by some loaded assignment.
KnownIds == { assignments[i].id : i \in 1..Len(assignments) }

\* Points of the last assignment, in dataset order, that carries aid.
LastPoints(aid) ==
    LET I == { i \in 1..Len(assignments) : assignments[i].id = aid }
    IN  assignments[CHOOSE i \in I : \A j \in I : j <= i].points

\* Submissions of student sid that name a known assignment.
Counted(sid) ==
    { i \in 1..Len(submissions) :
        /\ submissions[i].student_id = sid
        /\ submissions[i].assignment_id \in KnownIds }

\* Sum of points * percent over Counted(sid), in units of 1/Scale.
Earned(sid) ==
    SumOver(Counted(sid),
            [i \in Counted(sid) |->
                LastPoints(submissions[i].assignment_id) * submissions[i].percent])

C2_UnknownStudent ==
    (GradeAsked /\ stdin[2] \notin DOMAIN students) =>
        printed = <<Text("Student not found")>>

\* The grade of a name that is no student was asked for, with submissions
\* and assignments loaded.
C2_Witness ==
    /\ GradeAsked
    /\ stdin[2] \notin DOMAIN students
    /\ AllNonEmpty

\* Indices of the submissions whose assignment_id is that of assignment name.
Matching(name) ==
    { i \in 1..Len(submissions) :
        \E k \in 1..Len(assignments) :
            /\ assignments[k].name = name
            /\ submissions[i].assignment_id = assignments[k].id }

Rounded(num, den) ==
    CHOOSE g \in 0..200 :
        /\ IsNearest(g, num, den)
        /\ (2 * (num % den) = den => g % 2 = 0)

\* Percents of the submissions that match assignment name.
MatchingPercents(name) == { submissions[i].percent : i \in Matching(name) }

WellFormedStudentLine(l) == CommaCount(l) = 1

\* An assignment line has exactly three fields and integer points.
WellFormedAssignmentLine(l) == CommaCount(l) = 2 /\ IsInt(Field(l, 2))

\* C5: lines with the wrong field count, and assignment lines whose points
\* are no integer, add no entry, leave earlier entries alone and do not stop
\* later lines from loading: the dataset is the one loaded from the same
\* source with those lines removed.
C5_SkipMalformed ==
    /\ pc = "students_loop" =>
          students = LoadStudents(SelectSeq(file, WellFormedStudentLine))
    /\ pc = "assignments_loop" =>
          assignments = LoadAssignments(SelectSeq(file, WellFormedAssignmentLine))

\* An assignments file of three lines, the second with non-integer points
\* between two well-formed lines that both left an entry.
C5_Witness ==
    /\ pc = "assignments_loop"
    /\ Len(file) = 3
    /\ WellFormedAssignmentLine(file[1])
    /\ CommaCount(file[2]) = 2 /\ ~IsInt(Field(file[2], 2))
    /\ WellFormedAssignmentLine(file[3])
    /\ Len(assignments) = 2

AllStudentLinesValid == \A i \in 1..Len(file) : WellFormedStudentLine(file[i])

\* C6 as stated: N valid lines yield exactly N entries, each name mapped to
\* its trimmed identifier.
C6_Original ==
    (pc = "students_loop" /\ AllStudentLinesValid) =>
        /\ Cardinality(DOMAIN students) = Len(file)
        /\ \A i \in 1..Len(file) :
             /\ Field(file[i], 1) \in DOMAIN students
             /\ students[Field(file[i], 1)] = Field(file[i], 2)

\* C6, amended: N valid lines yield one entry per distinct trimmed name,
\* each name mapped to the trimmed identifier of the last line that carries
\* it; exactly N entries when the N names are pairwise distinct.
C6_OneEntryPerName ==
    (pc = "students_loop" /\ AllStudentLinesValid) =>
        LET N == Len(file)
            last(n) == CHOOSE i \in 1..N :
                          /\ Field(file[i], 1) = n
                          /\ \A j \in 1..N : Field(file[j], 1) = n => j <= i
        IN  /\ DOMAIN students = { Field(file[i], 1) : i \in 1..N }
            /\ \A n \in DOMAIN students : students[n] = Field(file[last(n)], 2)
            /\ (\A i, j \in 1..N : Field(file[i], 1) = Field(file[j], 1) => i = j)
                  => Cardinality(DOMAIN students) = N

\* Three valid lines, two of them with the same name and different
\* identifiers: two entries.
C6_Witness ==
    /\ pc = "students_loop"
    /\ Len(file) = 3
    /\ AllStudentLinesValid
    /\ Field(file[1], 1) = Field(file[3], 1)
    /\ Field(file[1], 2) # Field(file[3], 2)
    /\ Cardinality(DOMAIN students) = 2

LastLineValid ==
    /\ pc = "students_loop"
    /\ file # <<>>
    /\ WellFormedStudentLine(file[Len(file)])

\* C7 as stated: a valid line "X,Y" stores trimmed(Y) -> trimmed(X), the
\* first field being the identifier and the second the name.
C7_Original ==
    LastLineValid =>
        /\ Field(file[Len(file)], 2) \in DOMAIN students
        /\ students[Field(file[Len(file)], 2)] = Field(file[Len(file)], 1)

\* C7, amended: a valid line "X,Y" stores trimmed(X) -> trimmed(Y): the
\* first field is the name, the key of the grade query, and the second the
\* identifier.
C7_NameThenId ==
    LastLineValid =>
        /\ Field(file[Len(file)], 1) \in DOMAIN students
        /\ students[Field(file[Len(file)], 1)] = Field(file[Len(file)], 2)

\* The line " b , 2 " was just read and b maps to 2.
C7_Witness ==
    /\ LastLineValid
    /\ file[Len(file)] = <<" ", "b", " ", ",", " ", "2", " ">>
    /\ <<"b">> \in DOMAIN students
    /\ students[<<"b">>] = <<"2">>
    /\ <<"2">> \notin DOMAIN students

\* The content of a source is three whitespace-separated tokens, the third
\* one numeric.
WellFormedContent(src) ==
    LET parts == SplitWhitespace(src.text)
    IN  Len(parts) = 3 /\ IsFloat(parts[3])

EntryOf(src) ==
    LET parts == SplitWhitespace(src.text)
    IN  [student_id |-> parts[1], assignment_id |-> parts[2],
         percent |-> FloatVal(parts[3])]

RECURSIVE EntriesOf(_)
EntriesOf(srcs) ==
    IF srcs = <<>> THEN <<>> ELSE <<EntryOf(Head(srcs))>> \o EntriesOf(Tail(srcs))

ReadableWellFormed(src) == src.readable /\ WellFormedContent(src)

TxtReadableWellFormed(src) ==
    /\ src.name[Len(src.name)] = "t"
    /\ src.name[Len(src.name) - 1] = "x"
    /\ src.name[Len(src.name) - 2] = "t"
    /\ src.name[Len(src.name) - 3] = "."
    /\ ReadableWellFormed(src)

\* C8 as stated: one entry for each source of the directory whose content is
\* three tokens with a numeric third, none for any other source.
C8_Original ==
    pc = "submissions_loop" =>
        submissions = EntriesOf(SelectSeq(dir, ReadableWellFormed))

\* C8, amended: one entry, in listing order, for each source whose name ends
\* in ".txt" and whose content is three whitespace-separated tokens with a
\* numeric third; none for any other source (another name, blank, wrong
\* token count, non-numeric percent, unreadable), and such a source neither
\* stops the load nor changes the entries of the others.
C8_OneEntryPerTxtSource ==
    pc = "submissions_loop" =>
        submissions = EntriesOf(SelectSeq(dir, TxtReadableWellFormed))

\* A well-formed source with another name than *.txt was listed first and
\* left no entry; the well-formed .txt source after it left one.
C8_Witness ==
    /\ pc = "submissions_loop"
    /\ Len(dir) = 2
    /\ dir[1].name = OtherName /\ ReadableWellFormed(dir[1])
    /\ TxtReadableWellFormed(dir[2])
    /\ Len(submissions) = 1

ControlPoints ==
    { "load_students", "students_loop", "load_assignments", "assignments_loop",
      "load_submissions", "submissions_loop", "check", "menu", "grade", "stats",
      "graph", "done" }

AfterStudents == ControlPoints \ {"load_students", "students_loop"}

AfterAssignments == AfterStudents \ {"load_assignments", "assignments_loop"}

AfterSubmissions == AfterAssignments \ {"load_submissions", "submissions_loop"}

\* C9: an absent source is reported by its loader, which returns an empty
\* dataset; no exception leaves a loader, each loader can always go on to
\* its return and main to the next loader and to its check, and a source
\* that is present is loaded from its own content alone, whatever the
\* others are.
C9_MissingSource ==
    /\ pc \in ControlPoints
    /\ (pc \in AfterStudents /\ ~exists["students"]) => DOMAIN students = {}
    /\ (pc \in AfterAssignments /\ ~exists["assignments"]) => assignments = <<>>
    /\ (pc \in AfterSubmissions /\ ~exists["submissions"]) => submissions = <<>>
    /\ (pc = "load_assignments" /\ ~exists["students"]) =>
          printed = <<Text("Error: students.txt not found")>>
    /\ (pc = "load_submissions" /\ ~exists["assignments"]) =>
          printed = <<Text("Error: assignments.txt not found")>>
    /\ (pc = "check" /\ ~exists["submissions"]) =>
          printed = <<Text("Error: data/submissions not found")>>
    /\ pc = "students_loop" => exists["students"] /\ students = LoadStudents(file)
    /\ pc = "assignments_loop" =>
          exists["assignments"] /\ assignments = LoadAssignments(file)
    /\ pc = "submissions_loop" =>
          exists["submissions"] /\ submissions = LoadSubmissions(dir)
    /\ pc = "load_students" => ENABLED OpenStudents
    /\ pc = "students_loop" => ENABLED ReturnStudents
    /\ pc = "load_assignments" => ENABLED OpenAssignments
    /\ pc = "assignments_loop" => ENABLED ReturnAssignments
    /\ pc = "load_submissions" => ENABLED OpenSubmissions
    /\ pc = "submissions_loop" => ENABLED ReturnSubmissions
    /\ pc = "check" => ENABLED CheckLoaded

\* main reached its check with students.txt absent and the two other
\* datasets loaded.
C9_Witness ==
    /\ pc = "check"
    /\ ~exists["students"]
    /\ DOMAIN students = {}
    /\ Len(assignments) = 2
    /\ Len(submissions) = 2

QueryOutput ==
    { "Student not found", "Assignment not found", "Invalid option", "percent",
      "Min", "Avg", "Max", "histogram", "1. Student grade" }

\* C10: the menu is shown, a selection read and at most one query run only
\* after the three loaders returned and only with the three datasets
\* non-empty; with an empty dataset main prints the could-not-load message
\* and ends with no input read and no query run, so no query message is
\* ever printed in such a run.
C10_MainGate ==
    /\ pc \in {"menu", "grade", "stats", "graph"} =>
          AllNonEmpty /\ file = <<>> /\ dir = <<>>
    /\ stdin # <<>> => AllNonEmpty /\ pc \in {"grade", "stats", "graph", "done"}
    /\ Len(stdin) <= 2
    /\ pc \in {"grade", "stats", "graph"} => Len(stdin) = 1
    /\ (\E i \in 1..Len(printed) : printed[i].kind \in QueryOutput) => AllNonEmpty
    /\ (pc = "done" /\ ~AllNonEmpty) =>
          /\ printed = <<Text("Could not load necessary course data. Exiting.")>>
          /\ stdin = <<>>
    /\ (pc = "done" /\ AllNonEmpty) => stdin # <<>>

\* Every source is present, students and assignments loaded, no submission
\* did: main ended on the could-not-load message with nothing read.
C10_Witness ==
    /\ pc = "done"
    /\ \A s \in DOMAIN exists : exists[s]
    /\ Cardinality(DOMAIN students) > 0
    /\ Len(assignments) > 0
    /\ submissions = <<>>
    /\ stdin = <<>>
    /\ printed = <<Text("Could not load necessary course data. Exiting.")>>

=============================================================================
